---- MODULE Spec2Model ----
(***************************************************************************)
(* Model of @ohfc/tiny-pool (src/lib/tiny-pool/src/index.ts, queue.ts,     *)
(* worker.ts): the WorkerPool coordinator, its slot admission controller,  *)
(* the task queue, the life cycle of the worker threads, the stream        *)
(* adapter fromStream and the reply of a worker built with defineWorker.   *)
(* The small libraries of the repository are modelled next to it, each     *)
(* under a specification of its own: the token Bucket and the Limiter      *)
(* built on it (@ohfc/limiter), once() (@ohfc/once) and Deferred.          *)
(*                                                                         *)
(* The pool runs on one JavaScript event loop.  A synchronous block of the *)
(* code is one action.  The continuations of `await` are promise jobs,     *)
(* kept in the FIFO sequence `microtasks`; worker events (message, error,  *)
(* exit) are macrotasks and are delivered only when no promise job is      *)
(* pending.  Calls made by the user (run, startThreads, destroy) may come  *)
(* from any place of the user's code, so they interleave freely.           *)
(***************************************************************************)
EXTENDS Integers, Sequences, FiniteSets, TLC

\* ---- bounds of the model -------------------------------------------------
Threads == 1          \* options.threads
MaxQueueSize == 3     \* largest options.maxQueueSize explored
MaxTasks == 5         \* number of run() calls explored
MaxEvents == 2        \* startThreads() calls, destroy() calls and unit crashes explored
MaxParallelism == 2   \* largest availableParallelism() of a host explored

MaxUnits == Threads * MaxEvents
Units == 1..MaxUnits
Tasks == 1..MaxTasks
NoTask == 0

VARIABLES
  maxQueueSize,   \* this.maxQueueSize: set by the constructor, never changed
  workers,        \* this.workers: sequence of units
  idleWorkers,    \* this.idleWorkers: sequence of units
  queue,          \* this.queue: sequence of tasks
  destroyed,      \* this.destroyed
  usedSlots,      \* this.usedSlots
  slotWaiters,    \* this.slotWaiters: the run() calls suspended in acquireQueueSlot
  currentTask,    \* PooledWorker.currentTask of each unit (NoTask = null)
  unitState,      \* the worker thread: "unborn", "live", "errored", "exited"
  exitCode,       \* the code of a unit's exit event (-1 before it)
  inflight,       \* inputs posted to a worker thread and not yet answered
  call,           \* position of each run() call
  taskStatus,     \* the task's future: "pending", "resolved", "rejected"
  taskResult,     \* the value a task's future was resolved with
  microtasks,     \* pending promise jobs (run() calls to continue), FIFO
  destroyAwait,   \* for each destroy() still awaiting: the units it terminates
  spawned,        \* number of units created so far
  nextCall,       \* the next run() call
  starts,         \* number of startThreads() calls
  destroyCalls,   \* number of destroy() calls
  crashes,        \* number of unit crashes before destroy()
  resolveCalls,   \* how often task.resolve was invoked, per task
  rejectCalls,    \* how often task.reject was invoked, per task
  transfers,      \* how often a waiter callback was invoked
  poolErrors,     \* number of pool-level `error` events emitted
  suspended,      \* the run() calls that were ever pushed on slotWaiters
  coWaited,       \* pairs <<a, b>>: b was pushed on slotWaiters while a was on it
  destroyReleased,\* the run() calls that destroy() took from slotWaiters
  callEpoch,      \* destroyCalls at the time of each run() call (-1: not called)
  lateStarts,     \* number of startThreads() calls made after a destroy() call
  sourcePaused,   \* fromStream: the `data` handler paused the source and polls waitForSpace
  readingDone,    \* fromStream: readingDone
  active,         \* fromStream: active
  endEvents,      \* number of `end` events emitted
  finalized,      \* fromStream: the run() calls whose .finally callback has run
  dataEvents,     \* number of pool-level `data` events emitted, per payload
  threads,        \* this.options?.threads (Unset = undefined)
  parallelism,    \* availableParallelism() of the host
  capacity,       \* Bucket.capacity, in half tokens
  tokens,         \* Bucket.tokens, in half tokens
  consumed,       \* what the last consume() / take() / check() returned
  bucketOp,       \* the last method called on the Bucket or the Limiter
  wholeAmounts,   \* the capacity and every refill amount so far were whole numbers
  now,            \* Date.now(), in milliseconds since the Limiter was constructed
  lastRefill,     \* Limiter.lastRefill
  interval,       \* Limiter options.interval
  refillRate,     \* Limiter options.refillRate
  cooldownMs,     \* what the last cooldown() returned
  called,         \* once: called
  onceResult,     \* once: result
  invocations,    \* once: how often the callback was invoked
  returned,       \* once: what the last call of the wrapper returned (Threw: it threw)
  wrapperCalls,   \* once: how often the wrapper was called
  isResolved,     \* Deferred._isResolved, per Deferred
  isRejected,     \* Deferred._isRejected, per Deferred
  promise         \* the state of Deferred.promise, per Deferred

poolVars == <<maxQueueSize, workers, idleWorkers, queue, destroyed, usedSlots, slotWaiters,
          currentTask, unitState, exitCode, inflight, call, taskStatus,
          taskResult, microtasks, destroyAwait, spawned, nextCall, starts,
          destroyCalls, crashes, resolveCalls, rejectCalls, transfers,
          poolErrors, suspended, coWaited, destroyReleased, callEpoch,
          lateStarts, sourcePaused, readingDone, active, endEvents, finalized,
          dataEvents, threads, parallelism>>

\* the state of the libraries
bucketVars == <<capacity, tokens, consumed, bucketOp, wholeAmounts>>
limiterVars == <<now, lastRefill, interval, refillRate, cooldownMs>>
onceVars == <<called, onceResult, invocations, returned, wrapperCalls>>
deferredVars == <<isResolved, isRejected, promise>>
libVars == <<bucketVars, limiterVars, onceVars, deferredVars>>

vars == <<poolVars, libVars>>

\* the state of fromStream
streamVars == <<sourcePaused, readingDone, active, endEvents, finalized>>

\* what the constructor and the host fix for the life of a pool
fixedVars == <<maxQueueSize, threads, parallelism>>

\* The input of the k-th run() call (main.ts submits 1, 2, 3, ...).
InputOf(t) == t

\* What a worker thread answers for an input (worker.mjs: data * 2).
Reply(d) == 2 * d

\* The object `{ error: message }` that defineWorker posts when the task
\* function throws (worker.ts:14-16); no reply of worker.mjs is negative.
ErrorObject == -1

\* defineWorker's message handler (worker.ts:7-18): what the thread posts for
\* the input d, when the task function returns and when it throws.
DefineWorker(d, throws) == IF throws THEN ErrorObject ELSE Reply(d)

\* every value a worker thread can post
Payloads == {DefineWorker(InputOf(t), throws) : t \in Tasks, throws \in BOOLEAN}

\* `this.options?.threads` of a pool constructed without the option
Unset == -1

\* the length of the array startThreads() iterates over (index.ts:49-50):
\* this.options?.threads ?? availableParallelism() - 1
ThreadCount(th, par) == IF th # Unset THEN th ELSE par - 1

\* ---- the coordinator's state as one record, threaded through a handler ----
Snapshot ==
  [ workers |-> workers, idle |-> idleWorkers, queue |-> queue,
    destroyed |-> destroyed, used |-> usedSlots, waiters |-> slotWaiters,
    cur |-> currentTask, ustate |-> unitState, inflight |-> inflight,
    call |-> call, status |-> taskStatus, result |-> taskResult,
    micro |-> microtasks, spawned |-> spawned,
    resolveCalls |-> resolveCalls, rejectCalls |-> rejectCalls,
    transfers |-> transfers, poolErrors |-> poolErrors,
    suspended |-> suspended, coWaited |-> coWaited, data |-> dataEvents ]

Commit(s) ==
  /\ workers' = s.workers
  /\ idleWorkers' = s.idle
  /\ queue' = s.queue
  /\ destroyed' = s.destroyed
  /\ usedSlots' = s.used
  /\ slotWaiters' = s.waiters
  /\ currentTask' = s.cur
  /\ unitState' = s.ustate
  /\ inflight' = s.inflight
  /\ call' = s.call
  /\ taskStatus' = s.status
  /\ taskResult' = s.result
  /\ microtasks' = s.micro
  /\ spawned' = s.spawned
  /\ resolveCalls' = s.resolveCalls
  /\ rejectCalls' = s.rejectCalls
  /\ transfers' = s.transfers
  /\ poolErrors' = s.poolErrors
  /\ suspended' = s.suspended
  /\ coWaited' = s.coWaited
  /\ dataEvents' = s.data

Range(q) == {q[i] : i \in 1..Len(q)}

\* isQueueFull that never reports a full queue
IsQueueFull_Never(s) == FALSE

\* get isQueueFull (index.ts:149-151)
IsQueueFull(s) == s.used >= maxQueueSize

\* ---- slot admission controller -------------------------------------------

\* The callback pushed on slotWaiters (index.ts:167-170): reserve, resolve.
WaiterCallback(s, t) ==
  [s EXCEPT !.used = s.used + 1,
            !.call[t] = "resumed",
            !.micro = Append(s.micro, t),
            !.transfers = s.transfers + 1]

\* releaseQueueSlot taking the newest waiter (pop) instead of the oldest (shift)
ReleaseQueueSlot_Pop(s) ==
  IF Len(s.waiters) > 0
    THEN WaiterCallback([s EXCEPT !.waiters = SubSeq(s.waiters, 1, Len(s.waiters) - 1)],
                        s.waiters[Len(s.waiters)])
    ELSE IF s.used > 0 THEN [s EXCEPT !.used = s.used - 1] ELSE s

\* releaseQueueSlot that lowers usedSlots first and resumes a waiter only when
\* usedSlots is 0
ReleaseQueueSlot_Decrement(s) ==
  IF s.used > 0 THEN [s EXCEPT !.used = s.used - 1]
  ELSE IF Len(s.waiters) > 0
    THEN WaiterCallback([s EXCEPT !.waiters = Tail(s.waiters)], Head(s.waiters))
    ELSE s

\* releaseQueueSlot (index.ts:174-181)
ReleaseQueueSlot(s) ==
  IF Len(s.waiters) > 0
    THEN WaiterCallback([s EXCEPT !.waiters = Tail(s.waiters)], Head(s.waiters))
    ELSE IF s.used > 0 THEN [s EXCEPT !.used = s.used - 1] ELSE s

\* The body of `throw new TypeError("Worker Pool unavailable ...")` in run():
\* the call ends, its promise rejected.
Unavailable(s, t) == [s EXCEPT !.call[t] = "unavailable"]

\* acquireQueueSlot that ignores maxQueueSize: every call reserves at once
AcquireQueueSlot_NoLimit(s, t) ==
  IF s.destroyed THEN Unavailable(s, t)
  ELSE [s EXCEPT !.used = s.used + 1,
                 !.call[t] = "reserved",
                 !.micro = Append(s.micro, t)]

\* acquireQueueSlot up to its first suspension (index.ts:160-171)
AcquireQueueSlot(s, t) ==
  IF s.destroyed THEN Unavailable(s, t)
  ELSE IF s.used < maxQueueSize
    THEN [s EXCEPT !.used = s.used + 1,
                   !.call[t] = "reserved",
                   !.micro = Append(s.micro, t)]
    ELSE [s EXCEPT !.waiters = Append(s.waiters, t),
                   !.call[t] = "waiting",
                   !.suspended = s.suspended \cup {t},
                   !.coWaited = s.coWaited \cup {<<a, t>> : a \in Range(s.waiters)}]

\* ---- dispatch ------------------------------------------------------------

\* worker.postMessage(data): a thread that has ended drops the message.
PostMessage(s, u, d) ==
  IF s.ustate[u] = "live"
    THEN [s EXCEPT !.inflight[u] = Append(s.inflight[u], d)]
    ELSE s

\* an iteration of processQueue that forgets this.idleWorkers.shift()
DispatchOne_KeepIdle(s) ==
  LET pooled == Head(s.idle)
      task == Head(s.queue)
      s1 == ReleaseQueueSlot([s EXCEPT !.queue = Tail(s.queue)])
      s2 == [s1 EXCEPT !.cur[pooled] = task, !.call[task] = "dispatched"]
  IN PostMessage(s2, pooled, InputOf(task))

\* an iteration of processQueue that forgets this.releaseQueueSlot()
DispatchOne_NoRelease(s) ==
  LET pooled == Head(s.idle)
      task == Head(s.queue)
      s1 == [s EXCEPT !.idle = Tail(s.idle), !.queue = Tail(s.queue)]
      s2 == [s1 EXCEPT !.cur[pooled] = task, !.call[task] = "dispatched"]
  IN PostMessage(s2, pooled, InputOf(task))

\* One iteration of the loop of processQueue (index.ts:203-212)
DispatchOne(s) ==
  LET pooled == Head(s.idle)
      task == Head(s.queue)
      s1 == ReleaseQueueSlot([s EXCEPT !.idle = Tail(s.idle),
                                       !.queue = Tail(s.queue)])
      s2 == [s1 EXCEPT !.cur[pooled] = task, !.call[task] = "dispatched"]
  IN PostMessage(s2, pooled, InputOf(task))

\* processQueue (index.ts:201-214)
RECURSIVE ProcessQueue(_)
ProcessQueue(s) ==
  IF Len(s.idle) > 0 /\ Len(s.queue) > 0
    THEN ProcessQueue(DispatchOne(s))
    ELSE s

\* ---- run() ---------------------------------------------------------------

\* run() up to its await (index.ts:183-187)
RunEntry(s, t) ==
  IF s.destroyed THEN Unavailable(s, t) ELSE AcquireQueueSlot(s, t)

\* run() that does not look at `destroyed` again after its await
RunResume_NoRecheck(s, t) ==
  ProcessQueue([s EXCEPT !.queue = Append(s.queue, t), !.call[t] = "enqueued"])

\* run() after its await (index.ts:189-198)
RunResume(s, t) ==
  IF s.destroyed
    THEN LET s1 == ReleaseQueueSlot(s)
         IN IF s1.destroyed
              THEN Unavailable(s1, t)
              ELSE ProcessQueue([s1 EXCEPT !.queue = Append(s1.queue, t),
                                           !.call[t] = "enqueued"])
    ELSE ProcessQueue([s EXCEPT !.queue = Append(s.queue, t),
                                !.call[t] = "enqueued"])

\* ---- worker threads ------------------------------------------------------

\* createWorker (index.ts:102-143): the new unit is pushed on both lists.
CreateWorker(s) ==
  LET u == s.spawned + 1
  IN [s EXCEPT !.spawned = u,
               !.ustate[u] = "live",
               !.idle = Append(s.idle, u),
               !.workers = Append(s.workers, u)]

RECURSIVE CreateWorkers(_, _)
CreateWorkers(s, n) ==
  IF n = 0 THEN s ELSE CreateWorkers(CreateWorker(s), n - 1)

\* a handler that forgets `pooled.currentTask = null`
Settled_Keep(t) == t

\* the value of currentTask once its task was settled (index.ts:114, 126)
Settled(t) == NoTask

\* worker.on("message") (index.ts:111-121)
OnMessage(s, u, result) ==
  LET t == s.cur[u]
      s1 == IF t # NoTask
              THEN [s EXCEPT !.status[t] = IF s.status[t] = "pending"
                                             THEN "resolved" ELSE s.status[t],
                             !.result[t] = IF s.status[t] = "pending"
                                             THEN result ELSE s.result[t],
                             !.resolveCalls[t] = s.resolveCalls[t] + 1,
                             !.cur[u] = Settled(t)]
              ELSE s
      s2 == [s1 EXCEPT !.data[result] = s1.data[result] + 1]
  IN ProcessQueue([s2 EXCEPT !.idle = Append(s2.idle, u)])

\* an error handler that emits the pool `error` event in both cases
OnError_EmitAlways(s, u) ==
  LET t == s.cur[u]
      s1 == IF t # NoTask
              THEN [s EXCEPT !.status[t] = IF s.status[t] = "pending"
                                             THEN "rejected" ELSE s.status[t],
                             !.rejectCalls[t] = s.rejectCalls[t] + 1,
                             !.cur[u] = Settled(t),
                             !.poolErrors = s.poolErrors + 1]
              ELSE [s EXCEPT !.poolErrors = s.poolErrors + 1]
  IN ProcessQueue([s1 EXCEPT !.idle = Append(s1.idle, u)])

\* worker.on("error") (index.ts:123-132)
OnError(s, u) ==
  LET t == s.cur[u]
      s1 == IF t # NoTask
              THEN [s EXCEPT !.status[t] = IF s.status[t] = "pending"
                                             THEN "rejected" ELSE s.status[t],
                             !.rejectCalls[t] = s.rejectCalls[t] + 1,
                             !.cur[u] = Settled(t)]
              ELSE [s EXCEPT !.poolErrors = s.poolErrors + 1]
  IN ProcessQueue([s1 EXCEPT !.idle = Append(s1.idle, u)])

\* an exit handler that spawns a replacement for every exit
OnExit_Always(s, code) == CreateWorker(s)

\* worker.on("exit") (index.ts:134-139)
OnExit(s, code) ==
  IF ~s.destroyed /\ code # 0 THEN CreateWorker(s) ELSE s

\* destroy() with `if` in place of `while`: one waiter is unblocked per call
ReleaseAllWaiters_One(s) ==
  IF Len(s.waiters) > 0
    THEN WaiterCallback([s EXCEPT !.waiters = Tail(s.waiters)], Head(s.waiters))
    ELSE s

\* the synchronous part of destroy() (index.ts:216-226)
RECURSIVE ReleaseAllWaiters(_)
ReleaseAllWaiters(s) ==
  IF Len(s.waiters) > 0
    THEN ReleaseAllWaiters(
           WaiterCallback([s EXCEPT !.waiters = Tail(s.waiters)], Head(s.waiters)))
    ELSE s

\* destroy() that forgets `this.destroyed = true`
DestroyBegin_NoFlag(s) ==
  LET s1 == ReleaseAllWaiters(s)
  IN [s1 EXCEPT !.queue = <<>>]

\* destroy() that does not unblock the waiters
DestroyBegin_KeepWaiters(s) ==
  [s EXCEPT !.destroyed = TRUE, !.queue = <<>>]

DestroyBegin(s) ==
  LET s1 == ReleaseAllWaiters([s EXCEPT !.destroyed = TRUE])
  IN [s1 EXCEPT !.queue = <<>>]

\* destroy() that forgets `this.idleWorkers.length = 0`
DestroyEnd_KeepIdle(s) ==
  [s EXCEPT !.workers = <<>>, !.used = 0]

\* destroy() after its await (index.ts:227-229)
DestroyEnd(s) ==
  [s EXCEPT !.workers = <<>>, !.idle = <<>>, !.used = 0]

RemoveAt(q, i) == SubSeq(q, 1, i - 1) \o SubSeq(q, i + 1, Len(q))

\* ---- initial state: a constructed pool, no thread started ------------------
InitPool ==
  /\ maxQueueSize \in 1..MaxQueueSize
  /\ workers = <<>>
  /\ idleWorkers = <<>>
  /\ queue = <<>>
  /\ destroyed = FALSE
  /\ usedSlots = 0
  /\ slotWaiters = <<>>
  /\ currentTask = [u \in Units |-> NoTask]
  /\ unitState = [u \in Units |-> "unborn"]
  /\ exitCode = [u \in Units |-> -1]
  /\ inflight = [u \in Units |-> <<>>]
  /\ call = [t \in Tasks |-> "none"]
  /\ taskStatus = [t \in Tasks |-> "pending"]
  /\ taskResult = [t \in Tasks |-> 0]
  /\ microtasks = <<>>
  /\ destroyAwait = <<>>
  /\ spawned = 0
  /\ nextCall = 1
  /\ starts = 0
  /\ destroyCalls = 0
  /\ crashes = 0
  /\ resolveCalls = [t \in Tasks |-> 0]
  /\ rejectCalls = [t \in Tasks |-> 0]
  /\ transfers = 0
  /\ poolErrors = 0
  /\ suspended = {}
  /\ coWaited = {}
  /\ destroyReleased = {}
  /\ callEpoch = [t \in Tasks |-> -1]
  /\ lateStarts = 0
  /\ sourcePaused = FALSE
  /\ readingDone = FALSE
  /\ active = 0
  /\ endEvents = 0
  /\ finalized = {}
  /\ dataEvents = [r \in Payloads |-> 0]

\* ---- the libraries before any of their objects is constructed -------------
MaxDeferreds == 3     \* number of Deferred objects explored
Deferreds == 1..MaxDeferreds

NoBucket ==
  /\ capacity = 0
  /\ tokens = 0
  /\ consumed = FALSE
  /\ bucketOp = "none"
  /\ wholeAmounts = TRUE

NoLimiter ==
  /\ now = 0
  /\ lastRefill = 0
  /\ interval = 1
  /\ refillRate = 0
  /\ cooldownMs = 0

NoOnce ==
  /\ called = FALSE
  /\ onceResult = 0
  /\ invocations = 0
  /\ returned = 0
  /\ wrapperCalls = 0

NoDeferred ==
  /\ isResolved = [d \in Deferreds |-> FALSE]
  /\ isRejected = [d \in Deferreds |-> FALSE]
  /\ promise = [d \in Deferreds |-> "pending"]

\* a pool constructed with options.threads = Threads; the host's parallelism
\* is not read then
Init ==
  /\ InitPool
  /\ NoBucket /\ NoLimiter /\ NoOnce /\ NoDeferred
  /\ threads = Threads
  /\ parallelism = MaxParallelism

\* a pool constructed without options.threads, on a host of any parallelism
InitDefault ==
  /\ InitPool
  /\ NoBucket /\ NoLimiter /\ NoOnce /\ NoDeferred
  /\ threads = Unset
  /\ parallelism \in 1..MaxParallelism

\* ---- actions -------------------------------------------------------------

\* startThreads() calls, destroy() calls and crashes so far
Events == starts + destroyCalls + crashes

\* the user calls startThreads() (index.ts:48-53)
StartThreads ==
  /\ Events < MaxEvents
  /\ spawned + ThreadCount(threads, parallelism) <= MaxUnits
  /\ Commit(CreateWorkers(Snapshot, ThreadCount(threads, parallelism)))
  /\ starts' = starts + 1
  /\ lateStarts' = IF destroyCalls > 0 THEN lateStarts + 1 ELSE lateStarts
  /\ UNCHANGED streamVars
  /\ UNCHANGED <<libVars, fixedVars, exitCode, destroyAwait, nextCall, destroyCalls, crashes,
                 destroyReleased, callEpoch>>

\* the user calls run(): the synchronous part, up to the await
Run ==
  /\ nextCall <= MaxTasks
  /\ Commit(RunEntry(Snapshot, nextCall))
  /\ nextCall' = nextCall + 1
  /\ callEpoch' = [callEpoch EXCEPT ![nextCall] = destroyCalls]
  /\ UNCHANGED streamVars
  /\ UNCHANGED <<libVars, fixedVars, lateStarts, exitCode, destroyAwait, starts, destroyCalls, crashes,
                 destroyReleased>>

\* promise job: acquireQueueSlot continues after its inner promise was
\* resolved by the waiter callback and returns; run()'s await is scheduled.
AcquireResume ==
  /\ microtasks # <<>>
  /\ call[Head(microtasks)] = "resumed"
  /\ call' = [call EXCEPT ![Head(microtasks)] = "reserved"]
  /\ microtasks' = Append(Tail(microtasks), Head(microtasks))
  /\ UNCHANGED streamVars
  /\ UNCHANGED <<libVars, fixedVars, lateStarts, workers, idleWorkers, queue, destroyed, usedSlots, slotWaiters,
                 currentTask, unitState, exitCode, inflight, taskStatus,
                 taskResult, destroyAwait, spawned, nextCall, starts,
                 destroyCalls, crashes, resolveCalls, rejectCalls, transfers,
                 poolErrors, suspended, coWaited, destroyReleased, callEpoch,
                 dataEvents>>

\* promise job: run() continues after `await this.acquireQueueSlot()`
RunContinue ==
  /\ microtasks # <<>>
  /\ call[Head(microtasks)] = "reserved"
  /\ Commit(RunResume([Snapshot EXCEPT !.micro = Tail(microtasks)],
                      Head(microtasks)))
  /\ UNCHANGED streamVars
  /\ UNCHANGED <<libVars, fixedVars, lateStarts, exitCode, destroyAwait, nextCall, starts, destroyCalls, crashes,
                 destroyReleased, callEpoch>>

\* a worker thread answers the oldest input it was given
MessageEvent ==
  /\ microtasks = <<>>
  /\ \E u \in Units :
       /\ unitState[u] = "live"
       /\ inflight[u] # <<>>
       /\ Commit(OnMessage([Snapshot EXCEPT !.inflight[u] = Tail(inflight[u])],
                           u, Reply(Head(inflight[u]))))
  /\ UNCHANGED streamVars
  /\ UNCHANGED <<libVars, fixedVars, lateStarts, exitCode, destroyAwait, nextCall, starts, destroyCalls, crashes,
                 destroyReleased, callEpoch>>

\* a worker thread throws an uncaught exception: `error` is emitted, the
\* thread ends, its `exit` event follows
ErrorEvent ==
  /\ microtasks = <<>>
  /\ Events < MaxEvents
  /\ \E u \in Units :
       /\ unitState[u] = "live"
       /\ Commit(OnError([Snapshot EXCEPT !.ustate[u] = "errored",
                                          !.inflight[u] = <<>>], u))
  /\ crashes' = crashes + 1
  /\ UNCHANGED streamVars
  /\ UNCHANGED <<libVars, fixedVars, lateStarts, exitCode, destroyAwait, nextCall, starts, destroyCalls,
                 destroyReleased, callEpoch>>

\* a worker thread ends: after an uncaught exception (code 1), by
\* process.exit(code) in the thread, or by terminate() (code 1)
ExitEvent ==
  /\ microtasks = <<>>
  /\ \E u \in Units, code \in {0, 1} :
       /\ unitState[u] \in {"live", "errored"}
       /\ unitState[u] = "errored" => code = 1
       /\ (unitState[u] = "live" /\ code # 0 /\ ~destroyed) => Events < MaxEvents
       /\ crashes' = IF unitState[u] = "live" /\ code # 0 /\ ~destroyed
                       THEN crashes + 1 ELSE crashes
       /\ exitCode' = [exitCode EXCEPT ![u] = code]
       /\ Commit(OnExit([Snapshot EXCEPT !.ustate[u] = "exited",
                                         !.inflight[u] = <<>>], code))
  /\ UNCHANGED streamVars
  /\ UNCHANGED <<libVars, fixedVars, lateStarts, destroyAwait, nextCall, starts, destroyCalls, destroyReleased,
                 callEpoch>>

\* the user calls destroy(): the synchronous part, up to the await
Destroy ==
  /\ Events < MaxEvents
  /\ Commit(DestroyBegin(Snapshot))
  /\ destroyAwait' = Append(destroyAwait, Range(workers))
  /\ destroyCalls' = destroyCalls + 1
  /\ destroyReleased' = destroyReleased \cup Range(slotWaiters)
  /\ UNCHANGED streamVars
  /\ UNCHANGED <<libVars, fixedVars, lateStarts, exitCode, nextCall, starts, crashes, callEpoch>>

\* destroy() continues once every terminate() promise is resolved
DestroyFinish ==
  /\ \E i \in 1..Len(destroyAwait) :
       /\ \A u \in destroyAwait[i] : unitState[u] = "exited"
       /\ destroyAwait' = RemoveAt(destroyAwait, i)
  /\ Commit(DestroyEnd(Snapshot))
  /\ UNCHANGED streamVars
  /\ UNCHANGED <<libVars, fixedVars, lateStarts, exitCode, nextCall, starts, destroyCalls, crashes,
                 destroyReleased, callEpoch>>

Next ==
  \/ StartThreads
  \/ Run
  \/ AcquireResume
  \/ RunContinue
  \/ MessageEvent
  \/ ErrorEvent
  \/ ExitEvent
  \/ Destroy
  \/ DestroyFinish

Spec == Init /\ [][Next]_vars

\* a worker thread built with defineWorker answers the oldest input it was
\* given; its task function may throw
WorkerReply ==
  /\ microtasks = <<>>
  /\ \E u \in Units, throws \in BOOLEAN :
       /\ unitState[u] = "live"
       /\ inflight[u] # <<>>
       /\ Commit(OnMessage([Snapshot EXCEPT !.inflight[u] = Tail(inflight[u])],
                           u, DefineWorker(Head(inflight[u]), throws)))
  /\ UNCHANGED streamVars
  /\ UNCHANGED <<libVars, fixedVars, lateStarts, exitCode, destroyAwait, nextCall, starts,
                 destroyCalls, crashes, destroyReleased, callEpoch>>

\* The pool with any task function, one that may throw included.
NextThrow ==
  \/ StartThreads
  \/ Run
  \/ AcquireResume
  \/ RunContinue
  \/ WorkerReply
  \/ ErrorEvent
  \/ ExitEvent
  \/ Destroy
  \/ DestroyFinish

SpecThrow == Init /\ [][NextThrow]_vars

\* the pool constructed without options.threads
SpecDefault == InitDefault /\ [][Next]_vars

\* ---- fromStream (index.ts:56-88) -----------------------------------------

\* tryEnd (index.ts:60-64): the number of `end` events after the call
TryEnd(done, act, ends) == IF done /\ act = 0 THEN ends + 1 ELSE ends

\* the run() call t is over: it threw, or the future of its task is settled
RunSettled(t) == call[t] = "unavailable" \/ taskStatus[t] # "pending"

\* the run() call t was rejected
RunRejected(t) == call[t] = "unavailable" \/ taskStatus[t] = "rejected"

\* source.on("data") (index.ts:66-74): the source delivers a chunk.  On a full
\* queue the handler pauses the source and awaits waitForSpace(); otherwise it
\* counts the chunk and calls run().
SourceData ==
  /\ ~sourcePaused
  /\ ~readingDone
  /\ nextCall <= MaxTasks
  /\ IF IsQueueFull(Snapshot)
       THEN /\ sourcePaused' = TRUE
            /\ Commit(Snapshot)
            /\ UNCHANGED <<active, nextCall, callEpoch>>
       ELSE /\ sourcePaused' = FALSE
            /\ active' = active + 1
            /\ Commit(RunEntry(Snapshot, nextCall))
            /\ nextCall' = nextCall + 1
            /\ callEpoch' = [callEpoch EXCEPT ![nextCall] = destroyCalls]
  /\ UNCHANGED <<libVars, fixedVars, lateStarts, exitCode, destroyAwait, starts,
                 destroyCalls, crashes, destroyReleased, readingDone, endEvents,
                 finalized>>

\* a timer of waitForSpace fires (index.ts:154-158) and the queue is no longer
\* full: the `data` handler resumes the source, counts the chunk and calls
\* run() (index.ts:70-74).  While the queue is full the timer is set again.
WaitForSpace ==
  /\ sourcePaused
  /\ microtasks = <<>>
  /\ ~IsQueueFull(Snapshot)
  /\ sourcePaused' = FALSE
  /\ active' = active + 1
  /\ Commit(RunEntry(Snapshot, nextCall))
  /\ nextCall' = nextCall + 1
  /\ callEpoch' = [callEpoch EXCEPT ![nextCall] = destroyCalls]
  /\ UNCHANGED <<libVars, fixedVars, lateStarts, exitCode, destroyAwait, starts,
                 destroyCalls, crashes, destroyReleased, readingDone, endEvents,
                 finalized>>

\* source.on("end") (index.ts:82-85).  `end` follows the last `data` event.
\* pause() stops further `data` events but not `end`: when the last chunk is
\* read from the buffer of a Readable that has already ended (Readable.from
\* over an array, as in main.ts:77), `end` is emitted on the next tick whether
\* or not the `data` handler paused the source; a source that ends later
\* emits `end` after it was resumed.  Both orders are explored.
SourceEnd ==
  /\ ~readingDone
  /\ readingDone' = TRUE
  /\ endEvents' = TryEnd(TRUE, active, endEvents)
  /\ Commit(Snapshot)
  /\ UNCHANGED <<libVars, fixedVars, lateStarts, exitCode, destroyAwait, nextCall, starts,
                 destroyCalls, crashes, destroyReleased, callEpoch, sourcePaused,
                 active, finalized>>

\* promise jobs of a run() call that is over (index.ts:74-80): .catch emits the
\* pool `error` event if it was rejected, .finally counts down and calls tryEnd
RunFinally ==
  /\ \E t \in 1..(nextCall - 1) :
       /\ t \notin finalized
       /\ RunSettled(t)
       /\ finalized' = finalized \cup {t}
       /\ Commit([Snapshot EXCEPT !.poolErrors =
                    IF RunRejected(t) THEN @ + 1 ELSE @])
  /\ active' = active - 1
  /\ endEvents' = TryEnd(readingDone, active - 1, endEvents)
  /\ UNCHANGED <<libVars, fixedVars, lateStarts, exitCode, destroyAwait, nextCall, starts,
                 destroyCalls, crashes, destroyReleased, callEpoch, sourcePaused,
                 readingDone>>

\* A pool fed only through fromStream: no run() call by the user.  No run()
\* call is ever suspended (C17), so AcquireResume has nothing to continue.
NextStream ==
  \/ StartThreads
  \/ SourceData
  \/ WaitForSpace
  \/ SourceEnd
  \/ RunFinally
  \/ RunContinue
  \/ MessageEvent
  \/ ErrorEvent
  \/ ExitEvent
  \/ Destroy
  \/ DestroyFinish

SpecStream == Init /\ [][NextStream]_vars

\* static fromStream (index.ts:91-100): the pool is started, then fed from the
\* source.  No destroy(), no unit crash, every live unit answers each input,
\* and the source completes.
\* The event loop does not stop while a job, a timer, a unit reply or the
\* source's completion is pending; only the delivery of a further chunk is
\* left to the source.
EventLoop ==
  \/ starts = 0 /\ StartThreads
  \/ starts = 1 /\ (WaitForSpace \/ SourceEnd \/ RunFinally)
  \/ starts = 1 /\ (RunContinue \/ MessageEvent)

StartThenStream == EventLoop \/ (starts = 1 /\ SourceData)

SpecStreamLive == Init /\ [][StartThenStream]_vars /\ WF_vars(EventLoop)

\* Promise jobs always run: the event loop drains the microtask queue.
SpecFair ==
  Init /\ [][Next]_vars /\ WF_vars(AcquireResume) /\ WF_vars(RunContinue)

\* No destroy(), no unit crash, and every live unit answers each input.
NextLive ==
  \/ StartThreads
  \/ Run
  \/ AcquireResume
  \/ RunContinue
  \/ MessageEvent

SpecLive ==
  Init /\ [][NextLive]_vars
       /\ WF_vars(AcquireResume) /\ WF_vars(RunContinue) /\ WF_vars(MessageEvent)

TypeOK ==
  /\ usedSlots \in Nat
  /\ destroyed \in BOOLEAN
  /\ Range(queue) \subseteq Tasks
  /\ Range(slotWaiters) \subseteq Tasks
  /\ Range(workers) \subseteq Units

\* ---- derived quantities ---------------------------------------------------

\* run() calls that hold a reserved slot and have not yet enqueued their task
Holders == {t \in Tasks : call[t] \in {"resumed", "reserved"}}

\* units of the pool that hold a task
Executing == {u \in Range(workers) : currentTask[u] # NoTask}

Admitted(t) == call[t] \in {"enqueued", "dispatched"}

\* a step in which the reply of live unit u to its oldest input is handled
ReplyStep(u) ==
  /\ unitState[u] = "live"
  /\ unitState'[u] = "live"
  /\ inflight[u] # <<>>
  /\ inflight'[u] # inflight[u]

\* ---- C1 ------------------------------------------------------------------
\* C1: usedSlots is never greater than maxQueueSize, also right after a
\* freed slot was handed to a suspended waiter.
C1_SlotBound == usedSlots <= maxQueueSize

\* ---- C2 ------------------------------------------------------------------
\* C2 as stated: on a non-destroyed pool usedSlots equals the number of queued
\* tasks plus the number of tasks executing on a unit.
C2_Original ==
  ~destroyed => usedSlots = Len(queue) + Cardinality(Executing)

\* C2 amended: on a non-destroyed pool usedSlots equals the number of queued
\* tasks, plus the run() calls that hold a reserved slot and have not yet
\* enqueued, plus the number of slots handed to waiters so far; a task handed
\* to a unit no longer counts.
C2_SlotAccounting ==
  ~destroyed => usedSlots = Len(queue) + Cardinality(Holders) + transfers

C2_Witness ==
  /\ ~destroyed
  /\ Cardinality(Executing) > 0
  /\ Len(queue) > 0
  /\ Holders # {}
  /\ transfers > 0
  /\ usedSlots = Len(queue) + Cardinality(Holders) + transfers

C4_OneTaskPerUnit ==
  [][\A u \in Units :
       (currentTask[u] # NoTask /\ currentTask'[u] # NoTask
          /\ currentTask'[u] # currentTask[u])
       => taskStatus'[currentTask[u]] # "pending"]_vars

\* ---- C5 ------------------------------------------------------------------
\* C5: a run() called after destroy() fails at once with the pool-unavailable
\* error: it reserves no slot, enqueues nothing and is not suspended.
C5_DestroyFinality ==
  /\ [](\A t \in Tasks : callEpoch[t] > 0 => call[t] = "unavailable")
  /\ [][(nextCall' # nextCall /\ destroyCalls > 0)
          => /\ call'[nextCall] = "unavailable"
             /\ usedSlots' = usedSlots
             /\ queue' = queue
             /\ slotWaiters' = slotWaiters
             /\ microtasks' = microtasks]_vars

C5_Witness ==
  \E t \in Tasks : callEpoch[t] > 0 /\ call[t] = "unavailable" /\ usedSlots > 0

\* ---- C6 ------------------------------------------------------------------
\* C6: every run() suspended when destroy() is called is resumed by destroy(),
\* never enqueues, gives back its slot when it continues, and eventually fails
\* with the pool-unavailable error; no waiter stays suspended.
C6_DestroyReleasesWaiters ==
  /\ [](destroyed => slotWaiters = <<>>)
  /\ [](\A t \in destroyReleased : call[t] \in {"resumed", "reserved", "unavailable"})
  /\ [][\A t \in destroyReleased :
          (call[t] = "reserved" /\ call'[t] = "unavailable")
          => /\ queue' = queue
             /\ usedSlots' = IF usedSlots > 0 THEN usedSlots - 1 ELSE 0]_vars
  /\ destroyed ~> (\A t \in destroyReleased : call[t] = "unavailable")

C6_Witness ==
  \E t \in destroyReleased : call[t] = "unavailable" /\ usedSlots > 0

\* ---- C7 ------------------------------------------------------------------
\* C7: when a unit exits with a non-zero code while it holds a task and the
\* pool is not destroyed, that task's future is rejected.
C7_CrashFailsTask ==
  [][\A u \in Units :
       (/\ unitState[u] # "exited"
        /\ unitState'[u] = "exited"
        /\ exitCode'[u] # 0
        /\ ~destroyed
        /\ currentTask[u] # NoTask)
       => taskStatus'[currentTask[u]] = "rejected"]_vars

\* ---- C8 ------------------------------------------------------------------
\* C8: after startThreads() with threads = K, once every abnormal exit has
\* been handled, the pool holds exactly K units, all live, and no ended unit
\* is in the idle list.
C8_PoolSizeConstant ==
  (/\ starts = 1
   /\ ~destroyed
   /\ \A u \in Units : unitState[u] # "errored"
   /\ \A u \in Units : exitCode[u] # 0)
  => /\ Len(workers) = Threads
     /\ \A u \in Range(workers) : unitState[u] = "live"
     /\ \A u \in Range(idleWorkers) : unitState[u] = "live"

\* ---- C9 ------------------------------------------------------------------
\* C9: for every task, resolve and reject are invoked at most once in total;
\* the task a unit held when its reply arrived has been settled exactly once.
C9_SettleOnce ==
  /\ [](\A t \in Tasks : resolveCalls[t] + rejectCalls[t] <= 1)
  /\ [][\A u \in Units :
          (ReplyStep(u) /\ currentTask[u] # NoTask)
          => /\ resolveCalls'[currentTask[u]] = 1
             /\ rejectCalls'[currentTask[u]] = 0
             /\ taskStatus'[currentTask[u]] = "resolved"]_vars

C9_Witness ==
  \E t, t2 \in Tasks :
    /\ resolveCalls[t] = 1 /\ taskStatus[t] = "resolved"
    /\ rejectCalls[t2] = 1 /\ taskStatus[t2] = "rejected"

\* ---- C10 -----------------------------------------------------------------
\* C10: without destroy() and without crashes, once startThreads() was called
\* every enqueued task is eventually dispatched and its future settles.
C10_EventuallyExecuted ==
  \A t \in Tasks :
    (starts > 0 /\ Admitted(t)) ~> (taskStatus[t] # "pending")

\* ---- C11 -----------------------------------------------------------------
\* the pool is at rest: not destroyed, nothing queued, no promise job pending,
\* no unit holds a task or an unanswered input, and a live unit is idle
AtRest ==
  /\ ~destroyed
  /\ queue = <<>>
  /\ microtasks = <<>>
  /\ \A u \in Units : currentTask[u] = NoTask /\ inflight[u] = <<>>
  /\ \E u \in Range(idleWorkers) : unitState[u] = "live"

\* C11: admission is starvation-free: the pool is never at rest (queue empty,
\* every unit idle, a live unit available) while a submit is still suspended
\* or isQueueFull is true; from such a state no slot is ever released, so the
\* submit stays suspended and isQueueFull stays true forever.
C11_StarvationFree ==
  AtRest => (slotWaiters = <<>> /\ ~IsQueueFull(Snapshot))

\* ---- C12 -----------------------------------------------------------------
\* C12: tasks are handed to units in the order of their run() calls: when a
\* task is dispatched, no earlier run() call that holds or awaits a slot, or
\* whose task is queued, is still undispatched.
C12_FifoDispatch ==
  [][\A b \in Tasks :
       (call[b] # "dispatched" /\ call'[b] = "dispatched")
       => \A a \in 1..(b - 1) :
            call'[a] \notin {"waiting", "resumed", "reserved", "enqueued"}]_vars

\* ---- C13 -----------------------------------------------------------------
\* threads = 1, maxQueueSize = 2, the pool started, no crash, no destroy();
\* run(1), run(2), run(3) were called back to back (the first two have not
\* continued yet) and no further run() was called
ThreeBackToBack ==
  /\ maxQueueSize = 2
  /\ starts = 1
  /\ Events = 1
  /\ nextCall = 4
  /\ call[1] = "reserved"
  /\ call[2] = "reserved"

\* C13 as stated: of three inputs submitted back to back the first two are
\* admitted without suspending, and the third leaves its suspension only when
\* the first task has completed.
C13_Original ==
  /\ [](ThreeBackToBack => (1 \notin suspended /\ 2 \notin suspended))
  /\ [][(ThreeBackToBack /\ call[3] = "waiting" /\ call'[3] # "waiting" /\ ~destroyed')
          => taskStatus'[1] # "pending"]_vars

\* C13 amended: the first two are admitted without suspending and the third is
\* suspended; it is resumed in the step that hands the first task to the unit
\* (the slot is freed when the task leaves the queue), before any reply.
C13_Backpressure ==
  /\ [](ThreeBackToBack
          => /\ 1 \notin suspended /\ 2 \notin suspended
             /\ call[3] = "waiting"
             /\ slotWaiters = <<3>>
             /\ microtasks = <<1, 2>>
             /\ queue = <<>>)
  /\ [][(ThreeBackToBack /\ call'[3] # "waiting" /\ ~destroyed')
          => /\ call'[1] = "dispatched"
             /\ taskStatus'[1] = "pending"
             /\ call'[2] = "reserved"
             /\ call'[3] = "resumed"
             /\ queue' = <<>>]_vars

C13_Witness ==
  /\ maxQueueSize = 2 /\ starts = 1 /\ Events = 1 /\ nextCall = 4
  /\ 3 \in suspended
  /\ call[1] = "dispatched" /\ taskStatus[1] = "pending"
  /\ call[2] = "reserved"
  /\ call[3] = "resumed"

\* ---- C14 -----------------------------------------------------------------
\* C14: a resolved future holds the reply to its own task's input.
C14_ResultRouting ==
  \A t \in Tasks : taskStatus[t] = "resolved" => taskResult[t] = Reply(InputOf(t))

C14_Witness ==
  /\ \E u1, u2 \in Units : u1 # u2 /\ unitState[u1] = "live" /\ unitState[u2] = "live"
  /\ \E t1, t2 \in Tasks :
       /\ t1 # t2
       /\ taskStatus[t1] = "resolved" /\ taskResult[t1] = Reply(InputOf(t1))
       /\ taskStatus[t2] = "resolved" /\ taskResult[t2] = Reply(InputOf(t2))
       /\ \E u \in Units : currentTask[u] \notin {NoTask, t1, t2}

\* ---- C15 -----------------------------------------------------------------
\* number of destroy() calls whose promise is resolved
DestroysResolved == destroyCalls - Len(destroyAwait)

\* the step in which a destroy() call continues after its await and resolves
DestroyResolves == Len(destroyAwait') < Len(destroyAwait)

\* the fields of the pool and the state of every run() call and future
PoolAndFutures ==
  <<workers, idleWorkers, queue, destroyed, usedSlots, slotWaiters, currentTask,
    microtasks, call, taskStatus, taskResult>>

C19_TaskFailureRejects ==
  \A t \in Tasks : ~(taskStatus[t] = "resolved" /\ taskResult[t] = ErrorObject)

\* ---- C20 -----------------------------------------------------------------
\* the step in which the error event of unit u is handled
ErrorStep(u) == unitState[u] = "live" /\ unitState'[u] = "errored"

Unsettled == {t \in Tasks : Admitted(t) /\ taskStatus[t] = "pending"}

\* C17 as stated: fed through fromStream only, the admitted-but-unsettled
\* tasks (queued plus executing) never exceed maxQueueSize.
C17_Original ==
  ~destroyed => Cardinality(Unsettled) <= maxQueueSize

\* C17 amended: fed through fromStream only, no run() call is ever suspended,
\* usedSlots and the number of queued tasks never exceed maxQueueSize; a task
\* handed to a unit no longer counts.
C17_StreamBound ==
  /\ slotWaiters = <<>>
  /\ suspended = {}
  /\ usedSlots <= maxQueueSize
  /\ Len(queue) <= maxQueueSize

C17_Witness ==
  /\ ~destroyed
  /\ sourcePaused
  /\ Len(queue) = maxQueueSize
  /\ \E u \in Units : unitState[u] = "live" /\ currentTask[u] # NoTask
  /\ Cardinality(Unsettled) > maxQueueSize

\* ---- C18 -----------------------------------------------------------------
\* C18: `end` is emitted only when the source has ended and every chunk it
\* delivered was submitted and its run() call is over; after `end` no task is
\* resolved (no `data` event of an item follows) and nothing is submitted.
C18_EndOrdering ==
  /\ [][endEvents' > endEvents
          => /\ readingDone'
             /\ ~sourcePaused'
             /\ active' = 0
             /\ \A t \in 1..(nextCall' - 1) : RunSettled(t)' /\ t \in finalized']_vars
  /\ [][endEvents > 0
          => /\ resolveCalls' = resolveCalls
             /\ nextCall' = nextCall]_vars

\* ---- C21 -----------------------------------------------------------------
\* a step in which processQueue hands a task to the unit u
DispatchTo(u) == currentTask'[u] # NoTask /\ currentTask'[u] # currentTask[u]

\* C21: as long as destroy() is not called, a task is only ever dispatched to
\* a unit whose thread is alive, so a crash of one unit costs no other task.
C21_CrashIsolation ==
  [][\A u \in Units :
       (destroyCalls = 0 /\ DispatchTo(u)) => unitState'[u] = "live"]_vars

\* ---- C22 -----------------------------------------------------------------
\* get queueLength (index.ts:145-147, queue.ts:18-20)
QueueLength(s) == Len(s.queue)

\* C22: whatever the interleaving of run() calls, dispatches, slot transfers,
\* unit events and destroy(), queueLength never exceeds maxQueueSize.
C22_QueueDepth == QueueLength(Snapshot) <= maxQueueSize

\* the queue is at its limit after slots were handed to waiters, with more
\* slots counted as used than maxQueueSize
C22_Witness ==
  /\ ~destroyed
  /\ transfers > 0
  /\ usedSlots > maxQueueSize
  /\ QueueLength(Snapshot) = maxQueueSize

\* ---- C24 -----------------------------------------------------------------
\* C24: after one or more startThreads() calls on a pool with threads = K,
\* and no unit crash and no destroy(), the pool holds exactly K units.
C24_IdempotentSpawn ==
  (starts >= 1 /\ crashes = 0 /\ destroyCalls = 0) => Len(workers) = Threads

\* ---- C26 -----------------------------------------------------------------
\* a step in which the exit event of the unit u is handled
ExitStep(u) == unitState[u] # "exited" /\ unitState'[u] = "exited"

\* C26: handling a unit's exit spawns exactly one replacement when the code
\* is not 0 and the pool is not destroyed, and spawns nothing when destroy()
\* was called or the code is 0.
C26_NoRespawnInShutdown ==
  [][\A u \in Units :
       ExitStep(u) =>
         /\ spawned' = IF ~destroyed /\ exitCode'[u] # 0
                         THEN spawned + 1 ELSE spawned
         /\ Len(workers') = Len(workers) + (spawned' - spawned)]_vars

\* destroy() was called, a terminated unit's exit (code 1) has been handled,
\* and no unit was created beyond those of startThreads()
C26_Witness ==
  /\ destroyed
  /\ starts = 1
  /\ crashes = 0
  /\ \E u \in Units : unitState[u] = "exited" /\ exitCode[u] = 1
  /\ spawned = Threads

\* ---- C23 -----------------------------------------------------------------
\* max(1, P - 1)
AtLeastOne(n) == IF n < 1 THEN 1 ELSE n

\* C23: when options.threads is not configured, each startThreads() call
\* spawns max(1, P - 1) units, P being the host's available parallelism; with
\* P = 1 it spawns one unit.
C23_DefaultUnitCount ==
  [][(threads = Unset /\ starts' = starts + 1)
       => Len(workers') = Len(workers) + AtLeastOne(parallelism - 1)]_vars

\* ---- C25 -----------------------------------------------------------------
\* the task function completed the task t: its future holds the reply
Succeeded(t) == taskStatus[t] = "resolved" /\ taskResult[t] = Reply(InputOf(t))

\* C25: the pool emits one `data` event, carrying the task's result, for each
\* task that completed successfully, and no `data` event for a task whose
\* task function failed.
C25_DataEvents ==
  /\ \A t \in Tasks :
       dataEvents[Reply(InputOf(t))] = IF Succeeded(t) THEN 1 ELSE 0
  /\ dataEvents[ErrorObject] = 0

\* ==== the token Bucket (src/unnamed/part_000:53-81) =======================
\* Token counts are JavaScript numbers and need not be whole: the model counts
\* in half tokens, so the capacity and the refill amounts range over the
\* multiples of 1/2.
Token == 2            \* one token, the amount consume() takes
MaxCapacity == 6      \* largest capacity explored, in half tokens
MaxRefill == 4        \* largest refill amount explored, in half tokens

Whole(n) == n % Token = 0

\* Math.min
Min(a, b) == IF a < b THEN a ELSE b

\* a refill that does not cap at the capacity
BucketRefill_NoCap(tok, cap, amount) == tok + amount

\* Bucket.refill (part_000:62-64)
BucketRefill(tok, cap, amount) == Min(tok + amount, cap)

\* Bucket.fill (part_000:66-68)
BucketFill(cap) == cap

\* Bucket.consume (part_000:70-76): the new token count and the value returned
BucketConsume(tok) ==
  IF tok > 0 THEN [tokens |-> tok - Token, ok |-> TRUE]
             ELSE [tokens |-> tok, ok |-> FALSE]

\* Bucket.available (part_000:78-80)
BucketAvailable(tok) == tok

\* a pool that is constructed and never used, next to the library under study
PoolOnly ==
  /\ InitPool
  /\ maxQueueSize = 1
  /\ threads = Threads
  /\ parallelism = MaxParallelism

\* new Bucket(capacity) (part_000:57-60)
InitBucket ==
  /\ PoolOnly
  /\ capacity \in 0..MaxCapacity
  /\ tokens = capacity
  /\ consumed = FALSE
  /\ bucketOp = "new"
  /\ wholeAmounts = Whole(capacity)
  /\ NoLimiter /\ NoOnce /\ NoDeferred

Consume ==
  /\ tokens' = BucketConsume(tokens).tokens
  /\ consumed' = BucketConsume(tokens).ok
  /\ bucketOp' = "consume"
  /\ UNCHANGED <<capacity, wholeAmounts>>
  /\ UNCHANGED <<poolVars, limiterVars, onceVars, deferredVars>>

Refill ==
  /\ \E amount \in 0..MaxRefill :
       /\ tokens' = BucketRefill(tokens, capacity, amount)
       /\ wholeAmounts' = (wholeAmounts /\ Whole(amount))
  /\ bucketOp' = "refill"
  /\ UNCHANGED <<capacity, consumed>>
  /\ UNCHANGED <<poolVars, limiterVars, onceVars, deferredVars>>

Fill ==
  /\ tokens' = BucketFill(capacity)
  /\ bucketOp' = "fill"
  /\ UNCHANGED <<capacity, consumed, wholeAmounts>>
  /\ UNCHANGED <<poolVars, limiterVars, onceVars, deferredVars>>

NextBucket == Consume \/ Refill \/ Fill

SpecBucket == InitBucket /\ [][NextBucket]_vars

\* ---- C27 -----------------------------------------------------------------
\* a step that is a consume() call
ConsumeStep == bucketOp' = "consume"

\* what the claim says of consume()
ConsumeContract ==
  IF BucketAvailable(tokens) > 0
    THEN consumed' = TRUE /\ BucketAvailable(tokens') = BucketAvailable(tokens) - Token
    ELSE consumed' = FALSE /\ BucketAvailable(tokens') = BucketAvailable(tokens)

\* C27 as stated: after any sequence of consume(), refill(n) with n >= 0 and
\* fill() on a Bucket of capacity C, 0 <= available() <= C.
C27_Original ==
  0 <= BucketAvailable(tokens) /\ BucketAvailable(tokens) <= capacity

\* C27 amended: when the capacity and every refill amount are whole numbers,
\* 0 <= available() <= C after any sequence of consume(), refill(n) and fill();
\* in every case consume() returns true and lowers available() by one exactly
\* when available() > 0, and otherwise returns false and leaves it unchanged.
C27_BucketBound ==
  /\ [](wholeAmounts => (0 <= BucketAvailable(tokens)
                          /\ BucketAvailable(tokens) <= capacity))
  /\ [][ConsumeStep => ConsumeContract]_vars

\* a bucket of whole capacity was emptied by consume() calls and the last
\* consume() returned false
C27_Witness ==
  /\ wholeAmounts
  /\ capacity >= Token
  /\ bucketOp = "consume"
  /\ consumed = FALSE
  /\ BucketAvailable(tokens) = 0

\* ==== the Limiter (src/lib/_limiter/src/index.ts) =========================
\* The Limiter owns a Bucket (tokens, capacity) and reads the clock.  The
\* intervals explored are powers of two, for which the floating-point
\* quotient elapsed / interval is exact.
MaxNow == 6             \* the clock runs from 0 to MaxNow milliseconds
MaxLimiterCapacity == 2 \* largest options.capacity explored, in tokens
Intervals == {2, 4}     \* options.interval explored, in milliseconds
RefillRates == {1, 2}   \* options.refillRate explored

\* Math.floor((elapsed / interval) * refillRate), for elapsed > 0
TokensToAdd(elapsed) == (elapsed * refillRate) \div interval

\* Limiter.refill (index.ts:40-51) on the pair of the token count and
\* lastRefill
LimiterRefill(b) ==
  LET elapsed == now - b.lastRefill
  IN IF elapsed <= 0 THEN b
     ELSE IF TokensToAdd(elapsed) > 0
       THEN [tokens |-> BucketRefill(b.tokens, capacity, TokensToAdd(elapsed) * Token),
             lastRefill |-> now]
       ELSE b

\* the Limiter's bucket and lastRefill
LimiterState == [tokens |-> tokens, lastRefill |-> lastRefill]

\* new Limiter(options) (index.ts:27-38)
InitLimiter ==
  /\ PoolOnly
  /\ capacity \in {k * Token : k \in 1..MaxLimiterCapacity}
  /\ tokens = capacity
  /\ consumed = FALSE
  /\ bucketOp = "new"
  /\ wholeAmounts = TRUE
  /\ interval \in Intervals
  /\ refillRate \in RefillRates
  /\ now = 0
  /\ lastRefill = now
  /\ cooldownMs = 0
  /\ NoOnce /\ NoDeferred

\* time passes
Tick ==
  /\ now < MaxNow
  /\ now' = now + 1
  /\ UNCHANGED <<lastRefill, interval, refillRate, cooldownMs, bucketVars>>
  /\ UNCHANGED <<poolVars, onceVars, deferredVars>>

\* Limiter.check (index.ts:53-56)
Check ==
  /\ tokens' = LimiterRefill(LimiterState).tokens
  /\ lastRefill' = LimiterRefill(LimiterState).lastRefill
  /\ consumed' = (BucketAvailable(tokens') > 0)
  /\ bucketOp' = "check"
  /\ UNCHANGED <<capacity, wholeAmounts, now, interval, refillRate, cooldownMs>>
  /\ UNCHANGED <<poolVars, onceVars, deferredVars>>

\* Limiter.take (index.ts:58-65); the usage log is not modelled
Take ==
  /\ tokens' = BucketConsume(LimiterRefill(LimiterState).tokens).tokens
  /\ lastRefill' = LimiterRefill(LimiterState).lastRefill
  /\ consumed' = BucketConsume(LimiterRefill(LimiterState).tokens).ok
  /\ bucketOp' = "take"
  /\ UNCHANGED <<capacity, wholeAmounts, now, interval, refillRate, cooldownMs>>
  /\ UNCHANGED <<poolVars, onceVars, deferredVars>>

\* Limiter.fill (index.ts:67-70)
LimiterFill ==
  /\ tokens' = BucketFill(capacity)
  /\ lastRefill' = now
  /\ bucketOp' = "fill"
  /\ UNCHANGED <<capacity, consumed, wholeAmounts, now, interval, refillRate, cooldownMs>>
  /\ UNCHANGED <<poolVars, onceVars, deferredVars>>

\* Limiter.cooldown (index.ts:72-82)
Cooldown ==
  /\ tokens' = LimiterRefill(LimiterState).tokens
  /\ lastRefill' = LimiterRefill(LimiterState).lastRefill
  /\ cooldownMs' =
       IF BucketAvailable(tokens') > 0 THEN 0
       ELSE LET timePerToken == interval \div refillRate
                elapsed == now - lastRefill'
            IN timePerToken - (elapsed % timePerToken)
  /\ bucketOp' = "cooldown"
  /\ UNCHANGED <<capacity, consumed, wholeAmounts, now, interval, refillRate>>
  /\ UNCHANGED <<poolVars, onceVars, deferredVars>>

\* Limiter.available (index.ts:84-87)
Available ==
  /\ tokens' = LimiterRefill(LimiterState).tokens
  /\ lastRefill' = LimiterRefill(LimiterState).lastRefill
  /\ bucketOp' = "available"
  /\ UNCHANGED <<capacity, consumed, wholeAmounts, now, interval, refillRate, cooldownMs>>
  /\ UNCHANGED <<poolVars, onceVars, deferredVars>>

NextLimiter == Tick \/ Check \/ Take \/ LimiterFill \/ Cooldown \/ Available

SpecLimiter == InitLimiter /\ [][NextLimiter]_vars

\* ---- C28 -----------------------------------------------------------------
\* a step that is a check() call
CheckStep == bucketOp' = "check"

\* C28: check() is read-only: the token count and the last-refill time are
\* the same after check() as before, whatever time has passed since the last
\* refill.
C28_CheckReadOnly ==
  [][CheckStep => (tokens' = tokens /\ lastRefill' = lastRefill)]_vars

\* ==== once() (src/lib/once/src/index.ts) ==================================
\* The wrapper's calls are made one after the other; the callback either
\* returns or throws.
MaxArg == 4           \* the wrapper is called with the arguments 1..MaxArg
MaxCalls == 8         \* number of calls of the wrapper explored

\* the callback of the tests (index.test.ts:21): (x) => x * 2
Callback(x) == x * 2

\* `returned` after a call of the wrapper that threw
Threw == -1

\* a wrapper that never sets `called`
OnceCall_NoCache(st, x, throws) ==
  IF ~st.called
    THEN IF throws
           THEN [st EXCEPT !.invocations = st.invocations + 1, !.returned = Threw]
           ELSE [st EXCEPT !.invocations = st.invocations + 1,
                           !.result = Callback(x),
                           !.returned = Callback(x)]
    ELSE [st EXCEPT !.returned = st.result]

\* the function once() returns (index.ts:6-11), called with the argument x;
\* `throws`: the callback throws in this call
OnceCall(st, x, throws) ==
  IF ~st.called
    THEN IF throws
           THEN [st EXCEPT !.invocations = st.invocations + 1, !.returned = Threw]
           ELSE [st EXCEPT !.invocations = st.invocations + 1,
                           !.result = Callback(x),
                           !.called = TRUE,
                           !.returned = Callback(x)]
    ELSE [st EXCEPT !.returned = st.result]

OnceState ==
  [called |-> called, result |-> onceResult, invocations |-> invocations,
   returned |-> returned]

\* once(callback) (index.ts:2-4)
InitOnce ==
  /\ PoolOnly
  /\ NoBucket /\ NoLimiter /\ NoDeferred
  /\ called = FALSE
  /\ onceResult = 0
  /\ invocations = 0
  /\ returned = 0
  /\ wrapperCalls = 0

\* a call of the wrapper
Wrapper ==
  /\ wrapperCalls < MaxCalls
  /\ \E x \in 1..MaxArg, throws \in BOOLEAN :
       LET st == OnceCall(OnceState, x, throws)
       IN /\ called' = st.called
          /\ onceResult' = st.result
          /\ invocations' = st.invocations
          /\ returned' = st.returned
  /\ wrapperCalls' = wrapperCalls + 1
  /\ UNCHANGED <<poolVars, bucketVars, limiterVars, deferredVars>>

NextOnce == Wrapper

SpecOnce == InitOnce /\ [][NextOnce]_vars

PromiseSettle(state, outcome) == IF state = "pending" THEN outcome ELSE state

\* get isPending (part_006:14-16)
IsPending(d) == ~isResolved[d] /\ ~isRejected[d]

\* new Deferred() (part_006:5-6, 18-29), MaxDeferreds times
InitDeferred ==
  /\ PoolOnly
  /\ NoBucket /\ NoLimiter /\ NoOnce
  /\ isResolved = [d \in Deferreds |-> FALSE]
  /\ isRejected = [d \in Deferreds |-> FALSE]
  /\ promise = [d \in Deferreds |-> "pending"]

\* this.resolve(value) (part_006:20-23)
Resolve ==
  /\ \E d \in Deferreds :
       /\ isResolved' = [isResolved EXCEPT ![d] = TRUE]
       /\ promise' = [promise EXCEPT ![d] = PromiseSettle(promise[d], "fulfilled")]
  /\ UNCHANGED isRejected
  /\ UNCHANGED <<poolVars, bucketVars, limiterVars, onceVars>>

\* this.reject(reason) (part_006:24-27)
Reject ==
  /\ \E d \in Deferreds :
       /\ isRejected' = [isRejected EXCEPT ![d] = TRUE]
       /\ promise' = [promise EXCEPT ![d] = PromiseSettle(promise[d], "rejected")]
  /\ UNCHANGED isResolved
  /\ UNCHANGED <<poolVars, bucketVars, limiterVars, onceVars>>

NextDeferred == Resolve \/ Reject

SpecDeferred == InitDeferred /\ [][NextDeferred]_vars

\* ---- C30 -----------------------------------------------------------------
\* C30: after any sequence of resolve() and reject() calls, isResolved is true
\* exactly when the promise was resolved and isRejected exactly when it was
\* rejected; the two are never both true, and exactly one of isPending,
\* isResolved, isRejected holds.
C30_DeferredFlags ==
  \A d \in Deferreds :
    /\ isResolved[d] <=> promise[d] = "fulfilled"
    /\ isRejected[d] <=> promise[d] = "rejected"
    /\ ~(isResolved[d] /\ isRejected[d])
    /\ Cardinality({f \in {"pending", "resolved", "rejected"} :
                      \/ f = "pending" /\ IsPending(d)
                      \/ f = "resolved" /\ isResolved[d]
                      \/ f = "rejected" /\ isRejected[d]}) = 1

\* ---- C31 -----------------------------------------------------------------
\* the tasks handed to a unit in this step: each one left the queue and made
\* processQueue call releaseQueueSlot once
NewlyDispatched == {t \in Tasks : call[t] # "dispatched" /\ call'[t] = "dispatched"}

\* C31: a releaseQueueSlot that finds a waiter hands it the slot and leaves
\* usedSlots as it was; one that finds no waiter lowers usedSlots by one.  So
\* in a step without destroy() that resumes waiters, usedSlots falls by the
\* number of releases that found no waiter.
C31_TransferKeepsCount ==
  [][(destroyCalls' = destroyCalls /\ transfers' > transfers)
       => usedSlots' = usedSlots - (Cardinality(NewlyDispatched)
                                      - (transfers' - transfers))]_vars

\* ---- C32 -----------------------------------------------------------------
\* C32: between the coordinator's steps a pool that is not destroyed never has
\* both a queued task and an idle unit.
C32_WorkConserving ==
  ~destroyed => (queue = <<>> \/ idleWorkers = <<>>)

\* ---- C33 -----------------------------------------------------------------
\* C33: the idle list holds only units of the pool, each at most once, and a
\* unit of the pool is in the idle list exactly when its currentTask is null.
C33_IdleBookkeeping ==
  /\ Range(idleWorkers) \subseteq Range(workers)
  /\ \A i, j \in 1..Len(idleWorkers) : idleWorkers[i] = idleWorkers[j] => i = j
  /\ \A u \in Range(workers) :
       (u \in Range(idleWorkers)) <=> currentTask[u] = NoTask

\* ---- C34 -----------------------------------------------------------------
\* the number of places that hold the task t: positions of the queue and units
\* of the pool whose currentTask it is
Places(t) ==
  Cardinality({i \in 1..Len(queue) : queue[i] = t})
    + Cardinality({u \in Range(workers) : currentTask[u] = t})

\* C34: while the pool is not destroyed, every admitted task whose future is
\* not settled is held in exactly one place, the queue or one unit; and the
\* queue holds no task that was dispatched.
C34_TaskOwnership ==
  /\ ~destroyed =>
       \A t \in Tasks : (Admitted(t) /\ taskStatus[t] = "pending") => Places(t) = 1
  /\ \A t \in Range(queue) : call[t] = "enqueued"

\* ---- C35 -----------------------------------------------------------------
\* C35: on a pool that is not destroyed, with an empty queue, no suspended
\* run() and no run() between reserving and enqueueing, usedSlots is 0.
C35_NoSlotLeak ==
  (~destroyed /\ queue = <<>> /\ slotWaiters = <<>> /\ Holders = {})
    => usedSlots = 0

\* ---- C37 -----------------------------------------------------------------
\* C37: on a pool that is not destroyed, while a run() is suspended on
\* slotWaiters usedSlots is at least maxQueueSize, so a run() that arrives
\* then reserves no slot itself: it is suspended behind the others.
C37_NoBarging ==
  /\ []((~destroyed /\ slotWaiters # <<>>) => usedSlots >= maxQueueSize)
  /\ [][(nextCall' # nextCall /\ ~destroyed /\ slotWaiters # <<>>)
          => /\ slotWaiters' = Append(slotWaiters, nextCall)
             /\ usedSlots' = usedSlots]_vars

\* a run() arrived while another was suspended, after slots had been handed
\* to earlier waiters
C37_Witness ==
  /\ ~destroyed
  /\ transfers > 0
  /\ Len(slotWaiters) >= 2

\* ---- C38 -----------------------------------------------------------------
\* C38: once destroy() was called the queue is empty and stays empty; a run()
\* that holds a slot and has not enqueued when it continues on a destroyed
\* pool fails with the pool-unavailable error and enqueues nothing.
C38_NoEnqueueAfterDestroy ==
  /\ [](destroyed => queue = <<>>)
  /\ [][\A t \in Tasks :
          (destroyed /\ call[t] = "reserved" /\ call'[t] # "reserved")
          => (call'[t] = "unavailable" /\ queue' = queue)]_vars

\* a run() called before any destroy() that had reserved its slot directly
\* was rejected after destroy()
C38_Witness ==
  /\ destroyed
  /\ \E t \in Tasks :
       /\ callEpoch[t] = 0
       /\ t \notin suspended
       /\ call[t] = "unavailable"

\* ---- C36 -----------------------------------------------------------------
\* C36: fed through fromStream on a started pool whose unit answers every
\* input, from a source that delivers finitely many chunks and completes, the
\* `end` event is eventually emitted, and a paused source is eventually
\* resumed: the adapter does not wait in waitForSpace for ever.
C36_StreamCompletes ==
  /\ <>(endEvents > 0)
  /\ sourcePaused ~> ~sourcePaused

\* more chunks than slots went through the adapter, every run() is over, and
\* `end` was emitted
C36_Witness ==
  /\ endEvents > 0
  /\ ~sourcePaused
  /\ nextCall - 1 > maxQueueSize
  /\ \A t \in 1..(nextCall - 1) : t \in finalized

\* ---- C39 -----------------------------------------------------------------
\* C39: one fromStream call emits `end` at most once.
C39_SingleEnd == endEvents <= 1

====
